---- MODULE Spec2Model ----
(***************************************************************************)
(* Order-tracking webhook handler and review-submission handler, both      *)
(* doing read-modify-write cycles on data/orders.json and                  *)
(* data/reviews.json.  Every `await fs.readFile` / `await fs.writeFile`    *)
(* is a point where another invocation can run, so each file access is an  *)
(* atomic step of its own and the synchronous code that follows it runs in *)
(* the same step.                                                          *)
(*                                                                         *)
(* Optional JSON fields are modelled as sequences: <<>> is "absent /       *)
(* undefined", <<v>> is "present with value v".  Timestamps are integers:  *)
(* Date.now() and toISOString() are order preserving on them.  The         *)
(* pass-through request fields that no branch looks at (awb_number,        *)
(* previous_status, updated_at, remarks, location, imageUrl, customerName, *)
(* productName) are left out of the records.                               *)
(***************************************************************************)
EXTENDS Integers, Sequences, FiniteSets, TLC

\* ---------------------------------------------------------------- bounds
\* Invocations that get past every check and reach a file write.
MaxAdmitted == 2
\* File-system faults injected in one run.
MaxFaults == 1

Procs == {1, 2}

\* ------------------------------------------------------- optional values
None == <<>>
Some(v) == <<v>>
IsSome(o) == o # <<>>
Val(o) == o[1]

\* ---------------------------------------------------------- JSON scalars
\* A JSON scalar used as an identifier: its type and its string form.
Str(s) == [t |-> "string", v |-> s]
Num(s) == [t |-> "number", v |-> s]

\* orders[id]: a property access converts the key to its string form.
PropertyKey(id) == id.v

\* Own keys of the orders.json object written by the order-placement system.
Keys == {"A", "1", "B"}

\* Property names every parsed JSON object inherits from Object.prototype.
InheritedKeys == {"constructor"}

\* String.prototype.toLowerCase on the status strings of the model.
ToLowerCase(s) ==
    CASE s = "Delivered" -> "delivered"
      [] s = "DELIVERED" -> "delivered"
      [] s = "Shipped"   -> "shipped"
      [] OTHER           -> s

\* String.prototype.trim on the comment strings of the model.
Trim(s) ==
    CASE s = " "       -> ""
      [] s = " Great " -> "Great"
      [] OTHER         -> s

\* ------------------------------------------------------------ truthiness
\* JavaScript truthiness of an optional string field.
TruthyStr(o) == IsSome(o) /\ Val(o) # ""

\* JavaScript truthiness of an optional identifier (string or number).
TruthyId(o) ==
    /\ IsSome(o)
    /\ Val(o).v # ""
    /\ ~(Val(o).t = "number" /\ Val(o).v = "0")

\* A rating is a JSON number or string; tenths is ten times its numeric value.
NumRating(n) == [t |-> "number", tenths |-> n]
StrRating(n) == [t |-> "string", tenths |-> n]

\* !reviewData.rating is false for a non-zero number and a non-empty string.
TruthyRating(o) == IsSome(o) /\ (Val(o).t = "string" \/ Val(o).tenths # 0)

\* JavaScript truthiness of an optional boolean field.
TruthyBool(o) == IsSome(o) /\ Val(o)

\* ------------------------------------------------------------- the stores
\* An order record as the order-placement system creates it.
NewOrder(st, cr) ==
    [status          |-> st,
     lastUpdated     |-> None,
     trackingUpdates |-> None,
     deliveredAt     |-> None,
     canReview       |-> cr,
     hasReview       |-> None,
     reviewId        |-> None]

\* `let orders = {}`
NoOrders == <<>>

\* The prototype object a lookup of an inherited key returns: none of the
\* fields the handlers read is set on it.
InheritedObject == NewOrder(None, None)

\* orders[id]: "own" for a stored order, "inherited" for a property of
\* Object.prototype (truthy, not a stored order), "undefined" otherwise.
Lookup(os, id) ==
    IF PropertyKey(id) \in DOMAIN os THEN "own"
    ELSE IF PropertyKey(id) \in InheritedKeys THEN "inherited"
    ELSE "undefined"

\* The object orders[id] evaluates to when it is not undefined.
Get(os, id) ==
    IF PropertyKey(id) \in DOMAIN os THEN os[PropertyKey(id)] ELSE InheritedObject

\* --------------------------------------------------------------- requests
Methods == {"OPTIONS", "POST", "GET"}

\* event.body is "malformed" (not JSON), "empty" (absent, parsed as '{}') or
\* "json" (a JSON object with the fields below).
OrderNumbers == {Some(Str("A"))}
Statuses == {Some("shipped"), Some("Delivered")}
DeliveryDates == {None, Some(0)}

WebhookPayload(m, b, o, s, d) ==
    [kind |-> "webhook", method |-> m, body |-> b, id |-> o,
     current_status |-> s, delivery_date |-> d, rating |-> None, comment |-> None]

\* The webhook events of the model; a body that is not a JSON object has no
\* fields.  Every status and delivery_date is tried on order "A", each status
\* on order "1".
WebhookRequests ==
    { WebhookPayload(m, "empty", None, None, None) : m \in Methods }
    \cup { WebhookPayload("POST", "malformed", None, None, None) }
    \cup { WebhookPayload("POST", "json", None, Some("shipped"), None),
            WebhookPayload("POST", "json", Some(Str("A")), None, None),
            WebhookPayload("POST", "json", Some(Str("Z")), Some("shipped"), None),
            WebhookPayload("POST", "json", Some(Str("constructor")), Some("Delivered"), None) }
    \cup { WebhookPayload("POST", "json", Some(Str("1")), s, None) : s \in Statuses }
    \cup { WebhookPayload("POST", "json", o, s, d) :
              o \in OrderNumbers, s \in Statuses, d \in DeliveryDates }

OrderIds == {Some(Str("A")), Some(Str("1")), Some(Str("Z"))}
Ratings == {Some(NumRating(10)), Some(NumRating(60))}
Comments == {None, Some("Great")}
\* Further ratings, tried on one order: 0, 5, 2.5 and the string "3".
MoreRatings == {Some(NumRating(0)), Some(NumRating(50)), Some(NumRating(25)),
                Some(StrRating(30))}

ReviewRequest(m, b, o, r, c) ==
    [kind |-> "review", method |-> m, body |-> b, id |-> o,
     current_status |-> None, delivery_date |-> None, rating |-> r, comment |-> c]

ReviewRequests ==
    { ReviewRequest(m, "empty", None, None, None) : m \in Methods }
    \cup { ReviewRequest("POST", "malformed", None, None, None) }
    \cup { ReviewRequest("POST", "json", o, r, c) :
              o \in OrderIds, r \in Ratings, c \in Comments }
    \cup { ReviewRequest("POST", "json", Some(Str("1")), r, Some("Great")) :
              r \in MoreRatings }
    \cup { ReviewRequest("POST", "json", Some(Str("B")), Some(NumRating(10)), Some("Great")),
            ReviewRequest("POST", "json", Some(Str("1")), Some(NumRating(10)), Some(" ")),
            ReviewRequest("POST", "json", Some(Num("1")), Some(NumRating(10)), Some("Great")),
            ReviewRequest("POST", "json", Some(Str("constructor")), Some(NumRating(10)),
                          Some("Great")) }

NoRequest ==
    [kind |-> "none", method |-> "", body |-> "", id |-> None,
     current_status |-> None, delivery_date |-> None, rating |-> None, comment |-> None]

\* ------------------------------------------------------------------ state
VARIABLES
    ordersFile,   \* data/orders.json: order key -> order record
    reviewsFile,  \* data/reviews.json: sequence of review records
    now,          \* the clock read by Date.now() and new Date()
    pc,           \* per invocation slot: the await it is suspended at
    req,          \* per slot: the event being handled
    orders,       \* per slot: the handler's local `orders`
    reviews,      \* per slot: the handler's local `reviews`
    review,       \* per slot: the handler's local `review`
    resp,         \* per slot: the response returned (status code, review_id)
    seen,         \* per slot: what the read of orders.json returned
    wrote,        \* per slot: the files this invocation has written
    overlap,      \* per slot: another invocation was in flight during this one
    faulted,      \* per slot: a file operation of this invocation faulted
    admitted,     \* number of invocations that got past every check
    faults        \* number of file-system faults injected

vars == <<ordersFile, reviewsFile, now, pc, req, orders, reviews, review, resp,
          seen, wrote, overlap, faulted, admitted, faults>>

\* A response: its status code and, for an accepted review, the review_id.
Response(code, rid) == [statusCode |-> code, review_id |-> rid]

\* The outcome of one synchronous stretch of a handler: the await it stops
\* at (or "done"), its response if it returned, and its local `orders`.
Reply(code) == [pc |-> "done", resp |-> Some(Response(code, None)), orders |-> NoOrders]
Await(at, os) == [pc |-> at, resp |-> None, orders |-> os]

\* Date.now() never runs backwards; two invocations that read the clock are
\* taken to read different milliseconds.
Clock == {now + 1}

\* No handler is between its last step and handing its response back.
NoneDone == \A q \in Procs : pc[q] # "done"

\* The platform hands an event to a free slot; the slots are interchangeable,
\* so it is the first free one.
FreeSlot(p) == pc[p] = "idle" /\ \A q \in Procs : q < p => pc[q] # "idle"

\* An invocation that returns at a check reads no clock and is not counted;
\* one that gets past the checks reads the clock (t) and is counted.
Admission(out, t) ==
    IF out.pc = "done"
    THEN t = now + 1 /\ UNCHANGED <<now, admitted>>
    ELSE admitted < MaxAdmitted /\ now' = t /\ admitted' = admitted + 1

\* The slots whose invocations overlap once slot p starts one.
Overlapping(p) ==
    [q \in Procs |->
        IF q = p THEN \E r \in Procs : r # p /\ pc[r] # "idle"
        ELSE overlap[q] \/ pc[q] # "idle"]

\* A file operation may fault while the fault budget lasts.
MayFault(ok) == ok \/ faults < MaxFaults

\* -------------------------------------------------------- webhook handler
\* Faulty variant: the fault leaves the handler without a response.
WebhookRethrow == [pc |-> "done", resp |-> None, orders |-> NoOrders]

\* catch (error) { ... statusCode: 500 ... }
WebhookCatch == Reply(500)

\* The tracking-update entry pushed for an event.
TrackingUpdate(wd) ==
    [status |-> Val(wd.current_status), deliveryDate |-> wd.delivery_date]

\* Faulty variant: the list is started afresh on every event.
TrackingUpdatesReset(o) == <<>>

\* orders[orderNumber].trackingUpdates || []
TrackingUpdatesOrEmpty(o) ==
    IF IsSome(o.trackingUpdates) THEN Val(o.trackingUpdates) ELSE <<>>

\* webhookData.delivery_date || new Date().toISOString()
DeliveredAt(wd, t) ==
    IF IsSome(wd.delivery_date) THEN wd.delivery_date ELSE Some(t)

\* Faulty variant: the status is compared without lower-casing it.
MarkDeliveredExactCase(o, wd, t) ==
    IF Val(wd.current_status) = "delivered"
    THEN [o EXCEPT !.deliveredAt = DeliveredAt(wd, t), !.canReview = Some(TRUE)]
    ELSE o

\* Faulty variant: the delivered block runs for every status.
MarkDeliveredAlways(o, wd, t) ==
    [o EXCEPT !.deliveredAt = DeliveredAt(wd, t), !.canReview = Some(TRUE)]

\* The "Special handling for delivered status" block.
MarkDelivered(o, wd, t) ==
    IF ToLowerCase(Val(wd.current_status)) = "delivered"
    THEN [o EXCEPT !.deliveredAt = DeliveredAt(wd, t), !.canReview = Some(TRUE)]
    ELSE o

\* The in-memory update of the located order.
UpdateOrder(o, wd, t) ==
    MarkDelivered(
        [o EXCEPT !.status = wd.current_status,
                  !.lastUpdated = Some(t),
                  !.trackingUpdates = Some(Append(TrackingUpdatesOrEmpty(o),
                                                  TrackingUpdate(wd)))],
        wd, t)

\* Whether the handler gets as far as reading orders.json.
WebhookReads(wd) ==
    /\ wd.method = "POST"
    /\ wd.body # "malformed"
    /\ TruthyId(wd.id)
    /\ TruthyStr(wd.current_status)

\* The handler from its entry to the await of fs.writeFile: file is the
\* content of orders.json, readOk whether reading and parsing it succeeded.
\* An update of an inherited object changes no own key of `orders`.
WebhookHandler(wd, file, readOk, t) ==
    IF wd.method = "OPTIONS" THEN Reply(200)
    ELSE IF wd.method # "POST" THEN Reply(405)
    ELSE IF wd.body = "malformed" THEN WebhookCatch
    ELSE IF ~TruthyId(wd.id) \/ ~TruthyStr(wd.current_status) THEN Reply(400)
    ELSE IF ~readOk THEN Reply(404)
    ELSE IF Lookup(file, Val(wd.id)) = "undefined" THEN Reply(404)
    ELSE IF Lookup(file, Val(wd.id)) = "inherited" THEN Await("w_write", file)
    ELSE Await("w_write",
               [file EXCEPT ![PropertyKey(Val(wd.id))] = UpdateOrder(@, wd, t)])

\* An invocation of the webhook handler up to its first suspension after
\* the read of orders.json.
WebhookInvoke(p, wd, readOk, t) ==
    /\ FreeSlot(p)
    /\ NoneDone
    /\ readOk \/ (WebhookReads(wd) /\ faults < MaxFaults)
    /\ LET out == WebhookHandler(wd, ordersFile, readOk, t) IN
        /\ Admission(out, t)
        /\ pc' = [pc EXCEPT ![p] = out.pc]
        /\ resp' = [resp EXCEPT ![p] = out.resp]
        /\ orders' = [orders EXCEPT ![p] = out.orders]
    /\ req' = [req EXCEPT ![p] = wd]
    /\ seen' = [seen EXCEPT ![p] = IF WebhookReads(wd) /\ readOk
                                    THEN ordersFile ELSE NoOrders]
    /\ wrote' = [wrote EXCEPT ![p] = {}]
    /\ overlap' = Overlapping(p)
    /\ faulted' = [faulted EXCEPT ![p] = ~readOk]
    /\ faults' = IF readOk THEN faults ELSE faults + 1
    /\ UNCHANGED <<ordersFile, reviewsFile, reviews, review>>

\* await fs.writeFile(ordersPath, ...) completes or throws, and the handler returns.
WebhookWrite(p, ok) ==
    /\ pc[p] = "w_write"
    /\ NoneDone
    /\ MayFault(ok)
    /\ pc' = [pc EXCEPT ![p] = "done"]
    /\ IF ok
       THEN /\ ordersFile' = orders[p]
            /\ resp' = [resp EXCEPT ![p] = Reply(200).resp]
            /\ wrote' = [wrote EXCEPT ![p] = @ \cup {"orders"}]
            /\ UNCHANGED <<faults, faulted>>
       ELSE /\ resp' = [resp EXCEPT ![p] = WebhookCatch.resp]
            /\ faults' = faults + 1
            /\ faulted' = [faulted EXCEPT ![p] = TRUE]
            /\ UNCHANGED <<ordersFile, wrote>>
    /\ UNCHANGED <<reviewsFile, now, req, orders, reviews, review, seen, overlap,
                   admitted>>

\* --------------------------------------------------------- review handler
\* catch (error) { ... statusCode: 500 ... }
ReviewCatch == Reply(500)

\* The random suffix of a review id.
Suffixes == {"K7Q2ZD"}

\* `REV${Date.now()}${Math.random()...}`
ReviewId(t, rnd) == <<"REV", t, rnd>>

\* Faulty variant: the lower bound is exclusive.
OutOfRangeExclusive(r) == r.tenths <= 10 \/ r.tenths > 50

\* reviewData.rating < 1 || reviewData.rating > 5
OutOfRange(r) == r.tenths < 10 \/ r.tenths > 50

\* Faulty variant: the eligibility check lets every order through.
EligibleAlways(o) == TRUE

\* !order.canReview && order.status?.toLowerCase() !== 'delivered' is false
Eligible(o) ==
    \/ TruthyBool(o.canReview)
    \/ (IsSome(o.status) /\ ToLowerCase(Val(o.status)) = "delivered")

\* The review object built from the request.
NewReview(rd, t, rnd) ==
    [id        |-> ReviewId(t, rnd),
     orderId   |-> Val(rd.id),
     rating    |-> Val(rd.rating),
     comment   |-> Trim(Val(rd.comment)),
     createdAt |-> t,
     verified  |-> TRUE]

\* Whether the handler gets as far as reading orders.json.
ReviewReads(rd) ==
    /\ rd.method = "POST"
    /\ rd.body # "malformed"
    /\ TruthyId(rd.id) /\ TruthyRating(rd.rating) /\ TruthyStr(rd.comment)
    /\ ~OutOfRange(Val(rd.rating))

\* `orders` after the read of orders.json: a failed read leaves it {}.
OrdersRead(file, readOk) == IF readOk THEN file ELSE NoOrders

\* The handler from its entry to the await of fs.readFile(reviewsPath).
ReviewHandler(rd, file, readOk) ==
    IF rd.method = "OPTIONS" THEN Reply(200)
    ELSE IF rd.method # "POST" THEN Reply(405)
    ELSE IF rd.body = "malformed" THEN ReviewCatch
    ELSE IF ~TruthyId(rd.id) \/ ~TruthyRating(rd.rating) \/ ~TruthyStr(rd.comment)
         THEN Reply(400)
    ELSE IF OutOfRange(Val(rd.rating)) THEN Reply(400)
    ELSE IF Lookup(OrdersRead(file, readOk), Val(rd.id)) = "undefined" THEN Reply(404)
    ELSE IF ~Eligible(Get(OrdersRead(file, readOk), Val(rd.id))) THEN Reply(400)
    ELSE Await("r_readReviews", OrdersRead(file, readOk))

\* An invocation of the review handler up to its suspension at the read of
\* reviews.json.
ReviewInvoke(p, rd, readOk, t, rnd) ==
    /\ FreeSlot(p)
    /\ NoneDone
    /\ readOk \/ (ReviewReads(rd) /\ faults < MaxFaults)
    /\ LET out == ReviewHandler(rd, ordersFile, readOk) IN
        /\ Admission(out, t)
        /\ pc' = [pc EXCEPT ![p] = out.pc]
        /\ resp' = [resp EXCEPT ![p] = out.resp]
        /\ orders' = [orders EXCEPT ![p] = out.orders]
        /\ review' = [review EXCEPT ![p] = IF out.pc = "done" THEN None
                                           ELSE Some(NewReview(rd, t, rnd))]
    /\ req' = [req EXCEPT ![p] = rd]
    /\ seen' = [seen EXCEPT ![p] = IF ReviewReads(rd) /\ readOk
                                    THEN ordersFile ELSE NoOrders]
    /\ wrote' = [wrote EXCEPT ![p] = {}]
    /\ overlap' = Overlapping(p)
    /\ faulted' = [faulted EXCEPT ![p] = ~readOk]
    /\ faults' = IF readOk THEN faults ELSE faults + 1
    /\ UNCHANGED <<ordersFile, reviewsFile, reviews>>

\* `reviews` after the read of reviews.json: a failed read leaves it [].
ReviewsRead(file, readOk) == IF readOk THEN file ELSE <<>>

\* Faulty variant: the duplicate check finds nothing.
ExistingReviewNever(rs, id) == FALSE

\* Faulty variant: the review's own id is compared with the orderId.
ExistingReviewById(rs, id) == \E i \in 1 .. Len(rs) : rs[i].id = id

\* reviews.find(r => r.orderId === reviewData.orderId)
ExistingReview(rs, id) == \E i \in 1 .. Len(rs) : rs[i].orderId = id

\* The read of reviews.json completes, the duplicate check runs and the
\* new review is pushed; the handler suspends at the write of reviews.json.
ReviewReadReviews(p, ok) ==
    /\ pc[p] = "r_readReviews"
    /\ NoneDone
    /\ MayFault(ok)
    /\ IF ExistingReview(ReviewsRead(reviewsFile, ok), Val(review[p]).orderId)
       THEN /\ pc' = [pc EXCEPT ![p] = "done"]
            /\ resp' = [resp EXCEPT ![p] = Reply(400).resp]
            /\ UNCHANGED reviews
       ELSE /\ pc' = [pc EXCEPT ![p] = "r_writeReviews"]
            /\ reviews' = [reviews EXCEPT ![p] =
                              Append(ReviewsRead(reviewsFile, ok), Val(review[p]))]
            /\ UNCHANGED resp
    /\ faults' = IF ok THEN faults ELSE faults + 1
    /\ faulted' = [faulted EXCEPT ![p] = @ \/ ~ok]
    /\ UNCHANGED <<ordersFile, reviewsFile, now, req, orders, review, seen, wrote,
                   overlap, admitted>>

\* Faulty variant: the order is flagged but the review id is not recorded.
MarkReviewedFlagOnly(os, rv) ==
    IF Lookup(os, rv.orderId) = "own"
    THEN [os EXCEPT ![PropertyKey(rv.orderId)] = [@ EXCEPT !.hasReview = Some(TRUE)]]
    ELSE os

\* The "Update order to mark as reviewed" assignments.
MarkReviewed(os, rv) ==
    IF Lookup(os, rv.orderId) = "own"
    THEN [os EXCEPT ![PropertyKey(rv.orderId)] =
                [@ EXCEPT !.hasReview = Some(TRUE), !.reviewId = Some(rv.id)]]
    ELSE os

\* Faulty variant: the stored review is answered with the bad-request status.
AcceptedAsBadRequest(rv) == Some(Response(400, Some(rv.id)))

\* The response of an accepted review.
Accepted(rv) == Some(Response(200, Some(rv.id)))

\* await fs.writeFile(reviewsPath, ...) completes or throws; the order is
\* marked as reviewed in memory and the handler suspends at the write of
\* orders.json.
ReviewWriteReviews(p, ok) ==
    /\ pc[p] = "r_writeReviews"
    /\ NoneDone
    /\ MayFault(ok)
    /\ IF ~ok
       THEN /\ pc' = [pc EXCEPT ![p] = "done"]
            /\ resp' = [resp EXCEPT ![p] = ReviewCatch.resp]
            /\ faults' = faults + 1
            /\ faulted' = [faulted EXCEPT ![p] = TRUE]
            /\ UNCHANGED <<reviewsFile, orders, wrote>>
       ELSE /\ reviewsFile' = reviews[p]
            /\ wrote' = [wrote EXCEPT ![p] = @ \cup {"reviews"}]
            /\ UNCHANGED <<faults, faulted>>
            /\ IF Lookup(orders[p], Val(review[p]).orderId) = "undefined"
               THEN /\ pc' = [pc EXCEPT ![p] = "done"]
                    /\ resp' = [resp EXCEPT ![p] = Accepted(Val(review[p]))]
                    /\ UNCHANGED orders
               ELSE /\ pc' = [pc EXCEPT ![p] = "r_writeOrders"]
                    /\ orders' = [orders EXCEPT ![p] = MarkReviewed(@, Val(review[p]))]
                    /\ UNCHANGED resp
    /\ UNCHANGED <<ordersFile, now, req, reviews, review, seen, overlap, admitted>>

\* await fs.writeFile(ordersPath, ...) completes or throws, and the handler returns.
ReviewWriteOrders(p, ok) ==
    /\ pc[p] = "r_writeOrders"
    /\ NoneDone
    /\ MayFault(ok)
    /\ pc' = [pc EXCEPT ![p] = "done"]
    /\ IF ok
       THEN /\ ordersFile' = orders[p]
            /\ resp' = [resp EXCEPT ![p] = Accepted(Val(review[p]))]
            /\ wrote' = [wrote EXCEPT ![p] = @ \cup {"orders"}]
            /\ UNCHANGED <<faults, faulted>>
       ELSE /\ resp' = [resp EXCEPT ![p] = ReviewCatch.resp]
            /\ faults' = faults + 1
            /\ faulted' = [faulted EXCEPT ![p] = TRUE]
            /\ UNCHANGED <<ordersFile, wrote>>
    /\ UNCHANGED <<reviewsFile, now, req, orders, reviews, review, seen, overlap,
                   admitted>>

\* ------------------------------------------------------------ the system
\* The response is handed back to the platform and the slot is free again.
Finish(p) ==
    /\ pc[p] = "done"
    /\ pc' = [pc EXCEPT ![p] = "idle"]
    /\ req' = [req EXCEPT ![p] = NoRequest]
    /\ orders' = [orders EXCEPT ![p] = NoOrders]
    /\ reviews' = [reviews EXCEPT ![p] = <<>>]
    /\ review' = [review EXCEPT ![p] = None]
    /\ resp' = [resp EXCEPT ![p] = None]
    /\ seen' = [seen EXCEPT ![p] = NoOrders]
    /\ wrote' = [wrote EXCEPT ![p] = {}]
    /\ overlap' = [overlap EXCEPT ![p] = FALSE]
    /\ faulted' = [faulted EXCEPT ![p] = FALSE]
    /\ UNCHANGED <<ordersFile, reviewsFile, now, admitted, faults>>

\* orders.json as the order-placement system leaves it: order "A" shipped,
\* order "1" delivered, order "B" without a status field.
InitialOrders ==
    [k \in Keys |->
        CASE k = "A" -> NewOrder(Some("shipped"), None)
          [] k = "1" -> NewOrder(Some("delivered"), None)
          [] OTHER   -> NewOrder(None, None)]

Init ==
    /\ ordersFile = InitialOrders
    /\ reviewsFile = <<>>
    /\ now = 1
    /\ pc = [p \in Procs |-> "idle"]
    /\ req = [p \in Procs |-> NoRequest]
    /\ orders = [p \in Procs |-> NoOrders]
    /\ reviews = [p \in Procs |-> <<>>]
    /\ review = [p \in Procs |-> None]
    /\ resp = [p \in Procs |-> None]
    /\ seen = [p \in Procs |-> NoOrders]
    /\ wrote = [p \in Procs |-> {}]
    /\ overlap = [p \in Procs |-> FALSE]
    /\ faulted = [p \in Procs |-> FALSE]
    /\ admitted = 0
    /\ faults = 0

Next ==
    \/ \E p \in Procs, wd \in WebhookRequests, readOk \in BOOLEAN, t \in Clock :
          WebhookInvoke(p, wd, readOk, t)
    \/ \E p \in Procs, ok \in BOOLEAN : WebhookWrite(p, ok)
    \/ \E p \in Procs, rd \in ReviewRequests, readOk \in BOOLEAN, t \in Clock,
          rnd \in Suffixes : ReviewInvoke(p, rd, readOk, t, rnd)
    \/ \E p \in Procs, ok \in BOOLEAN : ReviewReadReviews(p, ok)
    \/ \E p \in Procs, ok \in BOOLEAN : ReviewWriteReviews(p, ok)
    \/ \E p \in Procs, ok \in BOOLEAN : ReviewWriteOrders(p, ok)
    \/ \E p \in Procs : Finish(p)

Spec == Init /\ [][Next]_vars

\* ---- invocations one after another
\* No invocation is in flight: the platform runs one invocation at a time.
Alone == \A q \in Procs : pc[q] = "idle"

SeqNext ==
    \/ \E p \in Procs, wd \in WebhookRequests, readOk \in BOOLEAN, t \in Clock :
          Alone /\ WebhookInvoke(p, wd, readOk, t)
    \/ \E p \in Procs, ok \in BOOLEAN : WebhookWrite(p, ok)
    \/ \E p \in Procs, rd \in ReviewRequests, readOk \in BOOLEAN, t \in Clock,
          rnd \in Suffixes : Alone /\ ReviewInvoke(p, rd, readOk, t, rnd)
    \/ \E p \in Procs, ok \in BOOLEAN : ReviewReadReviews(p, ok)
    \/ \E p \in Procs, ok \in BOOLEAN : ReviewWriteReviews(p, ok)
    \/ \E p \in Procs, ok \in BOOLEAN : ReviewWriteOrders(p, ok)
    \/ \E p \in Procs : Finish(p)

SeqSpec == Init /\ [][SeqNext]_vars

\* ---- overlapping invocations of well-formed events
\* Events that pass the field checks and name a stored order: the ones whose
\* invocations reach the file writes.
RaceWebhooks ==
    { WebhookPayload("POST", "json", Some(Str("1")), Some("shipped"), None),
      WebhookPayload("POST", "json", Some(Str("1")), Some("Delivered"), None),
      WebhookPayload("POST", "json", Some(Str("A")), Some("Delivered"), None) }

RaceReviews ==
    { ReviewRequest("POST", "json", Some(Str("1")), Some(NumRating(10)), Some("Great")),
      ReviewRequest("POST", "json", Some(Num("1")), Some(NumRating(10)), Some("Great")),
      ReviewRequest("POST", "json", Some(Str("A")), Some(NumRating(10)), Some("Great")) }

RaceNext ==
    \/ \E p \in Procs, wd \in RaceWebhooks, readOk \in BOOLEAN, t \in Clock :
          WebhookInvoke(p, wd, readOk, t)
    \/ \E p \in Procs, ok \in BOOLEAN : WebhookWrite(p, ok)
    \/ \E p \in Procs, rd \in RaceReviews, readOk \in BOOLEAN, t \in Clock,
          rnd \in Suffixes : ReviewInvoke(p, rd, readOk, t, rnd)
    \/ \E p \in Procs, ok \in BOOLEAN : ReviewReadReviews(p, ok)
    \/ \E p \in Procs, ok \in BOOLEAN : ReviewWriteReviews(p, ok)
    \/ \E p \in Procs, ok \in BOOLEAN : ReviewWriteOrders(p, ok)
    \/ \E p \in Procs : Finish(p)

RaceSpec == Init /\ [][RaceNext]_vars

\* ================================================================= claims
\* A slot whose handler has just returned.
Returned(p) == pc[p] = "done"
ReturnedWebhook(p) == Returned(p) /\ req[p].kind = "webhook"
ReturnedReview(p) == Returned(p) /\ req[p].kind = "review"
StatusOf(p) == Val(resp[p]).statusCode

\* The order the invocation of slot p found in orders.json, if it found one.
FoundOrder(p) == req[p].id # None /\ Lookup(seen[p], Val(req[p].id)) = "own"
SeenOrder(p) == seen[p][PropertyKey(Val(req[p].id))]
StoredOrder(p) == ordersFile[PropertyKey(Val(req[p].id))]

\* The tracking updates of an order record, none if the field is absent.
Updates(o) == IF o.trackingUpdates = None THEN <<>> ELSE o.trackingUpdates[1]

\* reviews.json before the invocation of slot p wrote it (p ran alone).
PriorReviews(p) ==
    IF "reviews" \in wrote[p]
    THEN SubSeq(reviewsFile, 1, Len(reviewsFile) - 1)
    ELSE reviewsFile

\* orders.json before the invocation of slot p wrote it (p ran alone).
PriorOrders(p) == IF "orders" \in wrote[p] THEN seen[p] ELSE ordersFile

C2_OneUpdateAppended ==
    \A p \in Procs :
        (ReturnedWebhook(p) /\ StatusOf(p) = 200 /\ FoundOrder(p)) =>
            /\ StoredOrder(p).trackingUpdates # None
            /\ Len(Updates(StoredOrder(p))) = Len(Updates(SeenOrder(p))) + 1
            /\ SubSeq(Updates(StoredOrder(p)), 1, Len(Updates(SeenOrder(p))))
                  = Updates(SeenOrder(p))
            /\ Updates(StoredOrder(p))[Len(Updates(StoredOrder(p)))].status
                  = Val(req[p].current_status)

\* A successful webhook appended to a sequence that already had an entry.
C2_Witness ==
    \E p \in Procs :
        /\ ReturnedWebhook(p) /\ StatusOf(p) = 200 /\ FoundOrder(p)
        /\ Len(Updates(SeenOrder(p))) >= 1

\* ---- C3
\* The request of slot p has a non-empty orderId and comment and a rating in range.
ValidFields(p) ==
    /\ req[p].method = "POST" /\ req[p].body = "json"
    /\ req[p].id # None /\ req[p].comment # None /\ req[p].comment # Some("")
    /\ req[p].rating # None
    /\ Val(req[p].rating).tenths >= 10 /\ Val(req[p].rating).tenths <= 50

\* The order is neither flagged canReview nor delivered (in any letter case).
NotReviewable(o) ==
    /\ o.canReview # Some(TRUE)
    /\ o.status \notin {Some("delivered"), Some("Delivered"), Some("DELIVERED")}

\* C3: a review submission with valid fields for an existing order whose
\* canReview is not true and whose status is not "delivered" in any letter
\* case (or is absent) is rejected with 400 and adds no review.
C3_IneligibleRejected ==
    \A p \in Procs :
        (req[p].kind = "review" /\ ValidFields(p) /\ FoundOrder(p)
            /\ NotReviewable(SeenOrder(p))) =>
            /\ Returned(p)
            /\ StatusOf(p) = 400
            /\ wrote[p] = {}

\* A valid review for an order without a status field has been rejected.
C3_Witness ==
    \E p \in Procs :
        /\ ReturnedReview(p) /\ ValidFields(p) /\ FoundOrder(p)
        /\ SeenOrder(p).status = None
        /\ SeenOrder(p).canReview = None

\* ---- C4
\* The review of slot p targets an eligible order that has no review yet,
\* and nothing else ran or faulted during the invocation.
FreshEligible(p) ==
    /\ ~overlap[p] /\ ~faulted[p]
    /\ req[p].id # None
    /\ PropertyKey(Val(req[p].id)) \in DOMAIN PriorOrders(p)
    /\ ~NotReviewable(PriorOrders(p)[PropertyKey(Val(req[p].id))])
    /\ \A i \in 1 .. Len(PriorReviews(p)) :
          PriorReviews(p)[i].orderId # Val(req[p].id)

\* C4: with a non-empty orderId and comment, ratings 0 and 6 are rejected
\* with 400 and nothing is written; ratings 1 and 5, for an eligible order
\* with no existing review, are accepted with 200 and stored with that rating.
C4_RatingBoundaries ==
    \A p \in Procs :
        (ReturnedReview(p) /\ req[p].method = "POST" /\ req[p].body = "json"
            /\ req[p].id # None /\ req[p].comment # None) =>
            /\ req[p].rating \in {Some(NumRating(0)), Some(NumRating(60))} =>
                  (StatusOf(p) = 400 /\ wrote[p] = {})
            /\ (req[p].rating \in {Some(NumRating(10)), Some(NumRating(50))}
                  /\ FreshEligible(p)) =>
                  /\ StatusOf(p) = 200
                  /\ Len(reviewsFile) = Len(PriorReviews(p)) + 1
                  /\ reviewsFile[Len(reviewsFile)].orderId = Val(req[p].id)
                  /\ reviewsFile[Len(reviewsFile)].rating = Val(req[p].rating)

\* A review with rating 5 has been accepted.
C4_Witness ==
    \E p \in Procs :
        /\ ReturnedReview(p) /\ StatusOf(p) = 200
        /\ req[p].rating = Some(NumRating(50))
        /\ FreshEligible(p)

\* ---- C5
DeliveredSpellings == {"delivered", "Delivered", "DELIVERED"}

\* The last tracking update of an order record that has one.
LastUpdate(o) == Updates(o)[Len(Updates(o))]

\* Slot p has just applied a delivered event, alone and successfully, to an
\* order whose latest tracking update was a delivered event too.
SecondDelivered(p) ==
    /\ ReturnedWebhook(p) /\ StatusOf(p) = 200 /\ ~overlap[p]
    /\ FoundOrder(p)
    /\ Val(req[p].current_status) \in DeliveredSpellings
    /\ Len(Updates(SeenOrder(p))) >= 1
    /\ LastUpdate(SeenOrder(p)).status \in DeliveredSpellings

\* C5 as stated: after the second of two successive delivered events, with
\* any delivery_date values, canReview is true and deliveredAt is not earlier
\* than it was after the first.
C5_AnyDates ==
    \A p \in Procs :
        SecondDelivered(p) =>
            /\ StoredOrder(p).canReview = Some(TRUE)
            /\ SeenOrder(p).canReview = Some(TRUE)
            /\ Val(StoredOrder(p).deliveredAt) >= Val(SeenOrder(p).deliveredAt)

\* C5, amended: after the second of two successive delivered events that
\* carry the same delivery_date, or both carry none, canReview is true after
\* each and deliveredAt is not earlier than it was after the first.
C5_SameDates ==
    \A p \in Procs :
        (SecondDelivered(p)
            /\ req[p].delivery_date = LastUpdate(SeenOrder(p)).deliveryDate) =>
            /\ StoredOrder(p).canReview = Some(TRUE)
            /\ SeenOrder(p).canReview = Some(TRUE)
            /\ Val(StoredOrder(p).deliveredAt) >= Val(SeenOrder(p).deliveredAt)

\* Two delivered events without delivery_date were applied in turn, and the
\* second moved deliveredAt forward.
C5_Witness ==
    \E p \in Procs :
        /\ SecondDelivered(p)
        /\ req[p].delivery_date = None
        /\ LastUpdate(SeenOrder(p)).deliveryDate = None
        /\ Val(StoredOrder(p).deliveredAt) > Val(SeenOrder(p).deliveredAt)

\* ---- C6
\* Slot p has just handled, alone and without a fault, a review with valid
\* fields for an order whose latest tracking update is a delivered event
\* and for which reviews.json held no review.
ReviewAfterDelivery(p) ==
    /\ ReturnedReview(p) /\ ValidFields(p)
    /\ ~overlap[p] /\ ~faulted[p]
    /\ PropertyKey(Val(req[p].id)) \in DOMAIN PriorOrders(p)
    /\ LET o == PriorOrders(p)[PropertyKey(Val(req[p].id))] IN
          /\ Len(Updates(o)) >= 1
          /\ LastUpdate(o).status \in DeliveredSpellings
          /\ o.status = Some(LastUpdate(o).status)
          /\ o.hasReview = None
    /\ \A i \in 1 .. Len(PriorReviews(p)) :
          PropertyKey(PriorReviews(p)[i].orderId) # PropertyKey(Val(req[p].id))

\* C6: after a successful "Delivered" webhook (any letter case) for an order
\* without a review, a following review with a valid rating and a non-empty
\* comment returns 200 with a review_id, reviews.json gains exactly that
\* review with verified = true, and the persisted order has hasReview = true
\* and reviewId equal to the returned review_id.
C6_ReviewAfterDelivered ==
    \A p \in Procs :
        ReviewAfterDelivery(p) =>
            /\ StatusOf(p) = 200
            /\ Val(resp[p]).review_id # None
            /\ Len(reviewsFile) = Len(PriorReviews(p)) + 1
            /\ reviewsFile[Len(reviewsFile)].id = Val(Val(resp[p]).review_id)
            /\ reviewsFile[Len(reviewsFile)].orderId = Val(req[p].id)
            /\ reviewsFile[Len(reviewsFile)].verified = TRUE
            /\ StoredOrder(p).hasReview = Some(TRUE)
            /\ StoredOrder(p).reviewId = Val(resp[p]).review_id

\* Order "A", not delivered at first, was delivered by a webhook and then reviewed.
C6_Witness ==
    \E p \in Procs :
        /\ ReviewAfterDelivery(p)
        /\ req[p].id = Some(Str("A"))
        /\ StatusOf(p) = 200

\* ---- C7
\* The request of slot p passes the field checks of its handler.
PassesChecks(p) ==
    /\ req[p].method = "POST" /\ req[p].body = "json"
    /\ IF req[p].kind = "webhook"
       THEN req[p].id # None /\ req[p].current_status # None
       ELSE ValidFields(p)

\* C7: when the referenced order is absent from orders.json, or orders.json
\* cannot be read, both handlers respond with 404 and write neither file.
C7_AbsentOrderNotFound ==
    \A p \in Procs :
        (Returned(p) /\ PassesChecks(p)
            /\ PropertyKey(Val(req[p].id)) \notin DOMAIN seen[p]) =>
            /\ StatusOf(p) = 404
            /\ wrote[p] = {}

\* ---- C8
\* C8: a POST to the webhook handler whose body is not parseable as JSON is
\* answered with 400 and orders.json is left unchanged.
C8_MalformedBodyBadRequest ==
    \A p \in Procs :
        (ReturnedWebhook(p) /\ req[p].method = "POST" /\ req[p].body = "malformed") =>
            /\ StatusOf(p) = 400
            /\ wrote[p] = {}

\* ---- C9
StatusCodes == {200, 400, 404, 405, 500}

\* The next step of the invocation in slot p, with or without a fault.
Step(p) ==
    \E ok \in BOOLEAN :
        \/ WebhookWrite(p, ok)
        \/ ReviewReadReviews(p, ok)
        \/ ReviewWriteReviews(p, ok)
        \/ ReviewWriteOrders(p, ok)

\* C9: every invocation of either handler, for any method, body, store
\* contents and file fault, ends by returning a response with status 200,
\* 400, 404, 405 or 500: a handler that has returned has such a response,
\* and one that has not can always take its next step.
C9_AlwaysResponds ==
    \A p \in Procs :
        /\ Returned(p) => (resp[p] # None /\ StatusOf(p) \in StatusCodes)
        /\ Returned(p) => ENABLED Finish(p)
        /\ (pc[p] \notin {"idle", "done"} /\ NoneDone) => ENABLED Step(p)

\* A write fault was answered with 500.
C9_Witness ==
    \E p \in Procs :
        /\ Returned(p) /\ resp[p] # None /\ StatusOf(p) = 500
        /\ faulted[p]
        /\ req[p].body = "json"

\* ---- C10
\* s is an initial segment of t.
IsPrefix(s, t) == Len(s) <= Len(t) /\ SubSeq(t, 1, Len(s)) = s

\* C10: for every order the persisted trackingUpdates is append-only: every
\* later state of orders.json has each earlier persisted sequence as a
\* prefix, under any interleaving of invocations.
C10_AppendOnly ==
    [][\A k \in Keys :
          IsPrefix(Updates(ordersFile[k]), Updates(ordersFile'[k]))]_vars

\* ---- C11
\* Every review record of reviews.json is still in it, unchanged, after the step.
ReviewsKept ==
    \A i \in 1 .. Len(reviewsFile) :
        \E j \in 1 .. Len(reviewsFile') : reviewsFile'[j] = reviewsFile[i]

\* C11: a review record persisted in reviews.json is present, with identical
\* field values, in every later state of reviews.json, under any interleaving
\* of review submissions and when a read of reviews.json fails.
C11_ReviewsNeverLost == [][ReviewsKept]_vars

\* C11 without overlap and without a failed read of reviews.json: the write
\* of an invocation that ran alone and saw no fault keeps every record.
C11_KeptWhenAlone ==
    [][(\A p \in Procs :
          (pc[p] = "r_writeReviews" /\ pc'[p] # "r_writeReviews")
              => (~overlap[p] /\ ~faulted[p])) => ReviewsKept]_vars

\* ---- C12
\* The positions in reviews.json of the reviews of the order stored under key k.
ReviewsOf(k) ==
    {i \in 1 .. Len(reviewsFile) : PropertyKey(reviewsFile[i].orderId) = k}

\* C12: in every state in which no invocation is in progress, an order has
\* hasReview = true exactly when reviews.json holds a review with its
\* orderId, and its reviewId is then that review's id.
C12_OneToOne ==
    Alone =>
        \A k \in Keys :
            /\ (ordersFile[k].hasReview = Some(TRUE)) <=> (ReviewsOf(k) # {})
            /\ \A i \in ReviewsOf(k) : ordersFile[k].reviewId = Some(reviewsFile[i].id)

\* ---- C13
\* An integer from 1 to 5, as a JSON number.
IntegerRatings == {NumRating(10 * n) : n \in 1 .. 5}

\* C13: every review record in reviews.json has a rating that is an integer
\* in [1, 5]; a rating such as 2.5 or the string "3" is rejected with 400
\* and not stored (when no file operation faults).
C13_StoredRatingsIntegers ==
    /\ \A i \in 1 .. Len(reviewsFile) : reviewsFile[i].rating \in IntegerRatings
    /\ \A p \in Procs :
          (ReturnedReview(p) /\ ~faulted[p] /\ req[p].rating # None
              /\ Val(req[p].rating) \notin IntegerRatings) =>
              (StatusOf(p) = 400 /\ wrote[p] = {})

\* ---- C14
\* C14: every review record in reviews.json has a comment that is non-empty
\* and has no leading or trailing whitespace; an empty or whitespace-only
\* comment is rejected with 400 and not stored (when no file operation faults).
C14_StoredCommentsNonEmpty ==
    /\ \A i \in 1 .. Len(reviewsFile) :
          reviewsFile[i].comment # "" /\ Trim(reviewsFile[i].comment) = reviewsFile[i].comment
    /\ \A p \in Procs :
          (ReturnedReview(p) /\ ~faulted[p]
              /\ req[p].method = "POST" /\ req[p].body = "json"
              /\ (req[p].comment = None \/ Trim(Val(req[p].comment)) = "")) =>
              (StatusOf(p) = 400 /\ wrote[p] = {})

\* ---- C15
\* Slot p has just handled, alone and without a file fault, a review with
\* valid fields for an eligible order of which reviews.json already held a
\* review with the same orderId.
DuplicateSubmission(p) ==
    /\ ReturnedReview(p) /\ ValidFields(p)
    /\ ~overlap[p] /\ ~faulted[p]
    /\ PropertyKey(Val(req[p].id)) \in DOMAIN PriorOrders(p)
    /\ ~NotReviewable(PriorOrders(p)[PropertyKey(Val(req[p].id))])
    /\ \E i \in 1 .. Len(PriorReviews(p)) :
          PriorReviews(p)[i].orderId = Val(req[p].id)

OrdersWriteFaulted(p) ==
    /\ ReturnedReview(p)
    /\ faulted[p]
    /\ wrote[p] = {"reviews"}
    /\ Lookup(orders[p], Val(req[p].id)) = "own"

\* Slot p has just handled, alone and without a file fault, a review with
\* valid fields for an order that an earlier invocation left with a persisted
\* review but without hasReview.
Resubmission(p) ==
    /\ ReturnedReview(p) /\ ValidFields(p)
    /\ ~overlap[p] /\ ~faulted[p]
    /\ PropertyKey(Val(req[p].id)) \in DOMAIN PriorOrders(p)
    /\ PriorOrders(p)[PropertyKey(Val(req[p].id))].hasReview = None
    /\ \E i \in 1 .. Len(PriorReviews(p)) :
          PropertyKey(PriorReviews(p)[i].orderId) = PropertyKey(Val(req[p].id))

\* The part of C16 about the faulting invocation: it returns 500, its review
\* is the last record of reviews.json, and the order it read without
\* hasReview is still stored without hasReview and reviewId.
C16_ReviewKeptOrderUnmarked ==
    \A p \in Procs :
        (OrdersWriteFaulted(p) /\ ~overlap[p] /\ SeenOrder(p).hasReview = None) =>
            /\ StatusOf(p) = 500
            /\ Len(reviewsFile) >= 1
            /\ reviewsFile[Len(reviewsFile)] = Val(review[p])
            /\ StoredOrder(p).hasReview = None
            /\ StoredOrder(p).reviewId = None

\* C16: when the write of orders.json faults after the write of reviews.json
\* succeeded, the invocation returns 500, the review stays in reviews.json
\* and the order stays without hasReview and reviewId; every later
\* resubmission of a review for that order is rejected with 400, so the
\* order never gains hasReview.
C16_NeverRepaired ==
    /\ C16_ReviewKeptOrderUnmarked
    /\ \A p \in Procs :
          Resubmission(p) =>
              (StatusOf(p) = 400 /\ StoredOrder(p).hasReview = None)

\* ---- C17
\* The five checks of the review handler, each read off the request of slot
\* p and the two files as they were before the invocation.
FieldsMissing(p) ==
    ~(TruthyId(req[p].id) /\ TruthyRating(req[p].rating) /\ TruthyStr(req[p].comment))

RatingOutside(p) ==
    Val(req[p].rating).tenths < 10 \/ Val(req[p].rating).tenths > 50

OrderMissing(p) == PropertyKey(Val(req[p].id)) \notin DOMAIN PriorOrders(p)

OrderIneligible(p) == NotReviewable(PriorOrders(p)[PropertyKey(Val(req[p].id))])

AlreadyReviewed(p) ==
    \E i \in 1 .. Len(PriorReviews(p)) : PriorReviews(p)[i].orderId = Val(req[p].id)

\* The status code of the earliest failing check, 200 if none fails.
FirstFailing(p) ==
    IF FieldsMissing(p) THEN 400
    ELSE IF RatingOutside(p) THEN 400
    ELSE IF OrderMissing(p) THEN 404
    ELSE IF OrderIneligible(p) THEN 400
    ELSE IF AlreadyReviewed(p) THEN 400
    ELSE 200

\* C17: the review handler answers a POST, run alone without a file fault,
\* with the status of the first failing check in the order required fields
\* (400), rating range (400), order exists (404), order eligible (400), no
\* existing review (400), and with 200 only when all five pass.
C17_FirstFailingCheck ==
    \A p \in Procs :
        (ReturnedReview(p) /\ req[p].method = "POST" /\ req[p].body = "json"
            /\ ~overlap[p] /\ ~faulted[p]) =>
            StatusOf(p) = FirstFailing(p)

\* ---- C18
\* Slot p has just returned a rejection, or the answer to an OPTIONS request.
Rejected(p) ==
    /\ Returned(p) /\ resp[p] # None
    /\ StatusOf(p) \in {400, 404, 405} \/ req[p].method = "OPTIONS"

\* Every change of a file is a write of some invocation, recorded in `wrote`.
WritesAreRecorded ==
    [][/\ ordersFile' # ordersFile =>
             \E p \in Procs : "orders" \in wrote'[p] /\ "orders" \notin wrote[p]
       /\ reviewsFile' # reviewsFile =>
             \E p \in Procs : "reviews" \in wrote'[p] /\ "reviews" \notin wrote[p]]_vars

\* C18: an invocation of either handler answered with 400, 404 or 405 has
\* written neither orders.json nor reviews.json, and an OPTIONS request is
\* answered with 200 and writes nothing.
C18_RejectionWritesNothing ==
    \A p \in Procs :
        Rejected(p) =>
            /\ wrote[p] = {}
            /\ req[p].method = "OPTIONS" => StatusOf(p) = 200

\* A webhook for an unknown order was rejected after the files had changed.
C18_Witness ==
    \E p \in Procs :
        /\ ReturnedWebhook(p) /\ Rejected(p)
        /\ StatusOf(p) = 404
        /\ req[p].id = Some(Str("Z"))
        /\ Len(reviewsFile) = 1
        /\ ordersFile["1"].hasReview = Some(TRUE)

\* ---- C19
\* Slot p has just returned 200 from a webhook that ran alone and found its order.
WebhookApplied(p) ==
    /\ ReturnedWebhook(p) /\ StatusOf(p) = 200
    /\ ~overlap[p]
    /\ FoundOrder(p)

\* C19: a successful webhook invocation, run without interleaving, leaves
\* every other order record and reviews.json unchanged; in the referenced
\* order it sets status, lastUpdated and trackingUpdates, keeps hasReview and
\* reviewId, sets deliveredAt and canReview when the new status is
\* "delivered" in any letter case and keeps them otherwise.
C19_OnlyReferencedOrderChanges ==
    \A p \in Procs :
        WebhookApplied(p) =>
            /\ "reviews" \notin wrote[p]
            /\ DOMAIN ordersFile = DOMAIN seen[p]
            /\ \A k \in DOMAIN seen[p] :
                  k # PropertyKey(Val(req[p].id)) => ordersFile[k] = seen[p][k]
            /\ StoredOrder(p).status = req[p].current_status
            /\ StoredOrder(p).lastUpdated # None
            /\ Len(Updates(StoredOrder(p))) = Len(Updates(SeenOrder(p))) + 1
            /\ StoredOrder(p).hasReview = SeenOrder(p).hasReview
            /\ StoredOrder(p).reviewId = SeenOrder(p).reviewId
            /\ IF Val(req[p].current_status) \in DeliveredSpellings
               THEN /\ StoredOrder(p).canReview = Some(TRUE)
                    /\ StoredOrder(p).deliveredAt # None
                    /\ req[p].delivery_date # None =>
                          StoredOrder(p).deliveredAt = req[p].delivery_date
               ELSE /\ StoredOrder(p).canReview = SeenOrder(p).canReview
                    /\ StoredOrder(p).deliveredAt = SeenOrder(p).deliveredAt

\* A "shipped" event with a delivery_date was applied to a delivered order,
\* which kept its deliveredAt and canReview.
C19_Witness ==
    \E p \in Procs :
        /\ WebhookApplied(p)
        /\ req[p].current_status = Some("shipped")
        /\ req[p].delivery_date # None
        /\ SeenOrder(p).canReview = Some(TRUE)
        /\ SeenOrder(p).deliveredAt # None
        /\ SeenOrder(p).deliveredAt # req[p].delivery_date

\* ---- C20
\* C20: once the persisted canReview of an order is true it is true in every
\* later state of orders.json, under any interleaving of webhook and review
\* invocations, including later webhook events with a non-delivered status.
C20_CanReviewStays ==
    [][\A k \in Keys :
          ordersFile[k].canReview = Some(TRUE) => ordersFile'[k].canReview = Some(TRUE)]_vars

====
